---------------------------- MODULE Spec2Model ----------------------------
(***************************************************************************)
(* Model of the MkDocs macro module .mkdocs/macros.py, which renders the   *)
(* messages, enums and services of a parsed .proto file as Markdown.       *)
(*                                                                         *)
(* A Python string is a sequence of one-character strings, so that strip,  *)
(* split, startswith, lower and title are computed character by character. *)
(* The two characters the lexer cannot quote are written TICK and DQUOTE.  *)
(* An AST is a sequence of nodes in declaration (pre-order) order, each    *)
(* holding the index of the node whose `elements` list it belongs to       *)
(* (0: the file's own element list).                                       *)
(***************************************************************************)
EXTENDS Naturals, Sequences, FiniteSets

VARIABLES fs, elements, call, result

vars == <<fs, elements, call, result>>

\* --------------------------------------------------------------- characters

TICK == "BACKTICK"
DQUOTE == "DOUBLEQUOTE"

Whitespace == {" ", "\n", "\t"}

UpperLetters ==
    <<"A", "B", "C", "D", "E", "F", "G", "H", "I", "J", "K", "L", "M",
      "N", "O", "P", "Q", "R", "S", "T", "U", "V", "W", "X", "Y", "Z">>

LowerLetters ==
    <<"a", "b", "c", "d", "e", "f", "g", "h", "i", "j", "k", "l", "m",
      "n", "o", "p", "q", "r", "s", "t", "u", "v", "w", "x", "y", "z">>

IsUpper(c) == \E i \in DOMAIN UpperLetters : UpperLetters[i] = c

IsLower(c) == \E i \in DOMAIN LowerLetters : LowerLetters[i] = c

IsCased(c) == IsUpper(c) \/ IsLower(c)

LowerChar(c) ==
    IF IsUpper(c)
    THEN LowerLetters[CHOOSE i \in DOMAIN UpperLetters : UpperLetters[i] = c]
    ELSE c

UpperChar(c) ==
    IF IsLower(c)
    THEN UpperLetters[CHOOSE i \in DOMAIN LowerLetters : LowerLetters[i] = c]
    ELSE c

\* ------------------------------------------------------------ str methods

\* s[a:b] of Python, with 1-based inclusive bounds.
Slice(s, a, b) == IF a > b THEN <<>> ELSE SubSeq(s, a, b)

StartsWith(s, p) == Len(p) <= Len(s) /\ SubSeq(s, 1, Len(p)) = p

EndsWith(s, p) == Len(p) <= Len(s) /\ SubSeq(s, Len(s) - Len(p) + 1, Len(s)) = p

RemovePrefix(s, p) == IF StartsWith(s, p) THEN Slice(s, Len(p) + 1, Len(s)) ELSE s

RemoveSuffix(s, p) ==
    IF p # <<>> /\ EndsWith(s, p) THEN Slice(s, 1, Len(s) - Len(p)) ELSE s

\* sub in s
Contains(s, sub) ==
    \E i \in 0..Len(s) : i + Len(sub) <= Len(s) /\ Slice(s, i + 1, i + Len(sub)) = sub

\* s.strip(chars): drop the characters of the set from both ends
StripChars(s, chars) ==
    LET keep == {i \in DOMAIN s : s[i] \notin chars}
    IN  IF keep = {} THEN <<>>
        ELSE LET first == CHOOSE i \in keep : \A j \in keep : i <= j
                 last == CHOOSE i \in keep : \A j \in keep : j <= i
             IN  SubSeq(s, first, last)

\* s.strip()
Strip(s) == StripChars(s, Whitespace)

\* Index of the first c in s, 0 if there is none.
IndexOf(s, c) ==
    IF \E i \in DOMAIN s : s[i] = c
    THEN CHOOSE i \in DOMAIN s : s[i] = c /\ \A j \in 1..(i - 1) : s[j] # c
    ELSE 0

RECURSIVE Split(_, _)
\* s.split(c): always at least one part
Split(s, c) ==
    LET i == IndexOf(s, c)
    IN  IF i = 0 THEN <<s>>
        ELSE <<Slice(s, 1, i - 1)>> \o Split(Slice(s, i + 1, Len(s)), c)

RECURSIVE SplitLines(_)
\* s.splitlines(): no part for the empty string nor after a final line break
SplitLines(s) ==
    IF s = <<>> THEN <<>>
    ELSE LET i == IndexOf(s, "\n")
         IN  IF i = 0 THEN <<s>>
             ELSE <<Slice(s, 1, i - 1)>> \o SplitLines(Slice(s, i + 1, Len(s)))

RECURSIVE Join(_, _)
\* sep.join(parts)
Join(parts, sep) ==
    IF parts = <<>> THEN <<>>
    ELSE IF Len(parts) = 1 THEN parts[1]
    ELSE parts[1] \o sep \o Join(Tail(parts), sep)

\* s.lower()
Lower(s) == [i \in DOMAIN s |-> LowerChar(s[i])]

\* s.title(): a cased character is upper case after an uncased one (or at the
\* start) and lower case after a cased one
Title(s) ==
    [i \in DOMAIN s |->
        IF i > 1 /\ IsCased(s[i - 1]) THEN LowerChar(s[i]) ELSE UpperChar(s[i])]

\* ---------------------------------------------------------------- TYPE_MAP

TYPE_MAP ==
    << <<<<"s", "t", "r", "i", "n", "g">>, <<"s", "t", "r", "i", "n", "g">>>>,
       <<<<"i", "n", "t", "3", "2">>, <<"i", "n", "t", "e", "g", "e", "r">>>>,
       <<<<"i", "n", "t", "6", "4">>, <<"i", "n", "t", "e", "g", "e", "r">>>>,
       <<<<"b", "o", "o", "l">>, <<"b", "o", "o", "l", "e", "a", "n">>>>,
       <<<<"b", "y", "t", "e", "s">>, <<"b", "y", "t", "e", "s">>>>,
       <<<<"d", "o", "u", "b", "l", "e">>, <<"f", "l", "o", "a", "t">>>>,
       <<<<"f", "l", "o", "a", "t">>, <<"f", "l", "o", "a", "t">>>>,
       <<<<"g", "o", "o", "g", "l", "e", ".", "p", "r", "o", "t", "o", "b", "u", "f", ".", "S",
             "t", "r", "u", "c", "t">>, <<"o", "b", "j", "e", "c", "t">>>>,
       <<<<"g", "o", "o", "g", "l", "e", ".", "p", "r", "o", "t", "o", "b", "u", "f", ".", "T",
             "i", "m", "e", "s", "t", "a", "m", "p">>, <<"t", "i", "m", "e", "s", "t", "a", "m",
             "p">>>>,
       <<<<"g", "o", "o", "g", "l", "e", ".", "p", "r", "o", "t", "o", "b", "u", "f", ".", "V",
             "a", "l", "u", "e">>, <<"a", "n", "y">>>>,
       <<<<"g", "o", "o", "g", "l", "e", ".", "p", "r", "o", "t", "o", "b", "u", "f", ".", "E",
             "m", "p", "t", "y">>, <<"e", "m", "p", "t", "y">>>> >>

\* key in TYPE_MAP
InTypeMap(key) == \E i \in DOMAIN TYPE_MAP : TYPE_MAP[i][1] = key

\* TYPE_MAP.get(key, default)
TypeMapGet(key, default) ==
    IF InTypeMap(key)
    THEN TYPE_MAP[CHOOSE i \in DOMAIN TYPE_MAP : TYPE_MAP[i][1] = key][2]
    ELSE default

\* ------------------------------------------------- _format_type_for_docs

Last(s) == s[Len(s)]

\* An Optional[str]: <<>> is None, <<s>> is the string s.
NoneStr == <<>>

Some(s) == <<s>>

\* Python truth of an Optional[str]: None and '' are false.
Truthy(opt) == opt # <<>> /\ opt[1] # <<>>

FormatIsPrimitive(proto_type) ==
    InTypeMap(proto_type) \/ StartsWith(proto_type, <<"g", "o", "o", "g", "l", "e", ".", "p", "r",
          "o", "t", "o", "b", "u", "f">>)

FormatDisplayName(proto_type) ==
    TypeMapGet(proto_type, Last(Split(proto_type, ".")))

\* Mutant: the anchor keeps the case of the display name.
FormatLabel_NoLower(proto_type) ==
    LET display_name == FormatDisplayName(proto_type)
        label == <<TICK>> \o display_name \o <<TICK>>
    IN  IF ~FormatIsPrimitive(proto_type)
        THEN <<"[">> \o label \o <<"]", "(", "#">> \o display_name \o <<")">>
        ELSE label

FormatLabel(proto_type) ==
    LET display_name == FormatDisplayName(proto_type)
        label == <<TICK>> \o display_name \o <<TICK>>
    IN  IF ~FormatIsPrimitive(proto_type)
        THEN <<"[">> \o label \o <<"]", "(", "#">> \o Lower(display_name) \o <<")">>
        ELSE label

\* Mutant: the repeated flag is tested before the map key.
FormatTypeForDocs_RepeatedFirst(proto_type, is_repeated, map_key) ==
    LET label == FormatLabel(proto_type)
    IN  IF is_repeated THEN <<"a", "r", "r", "a", "y", " ", "o", "f", " ">> \o label
        ELSE IF Truthy(map_key)
        THEN <<"m", "a", "p", " ", "o", "f", " ">> \o TypeMapGet(map_key[1], map_key[1]) \o <<" ",
              "t", "o", " ">> \o label
        ELSE label

FormatTypeForDocs(proto_type, is_repeated, map_key) ==
    LET label == FormatLabel(proto_type)
    IN  IF Truthy(map_key)
        THEN <<"m", "a", "p", " ", "o", "f", " ">> \o TypeMapGet(map_key[1], map_key[1]) \o <<" ",
              "t", "o", " ">> \o label
        ELSE IF is_repeated THEN <<"a", "r", "r", "a", "y", " ", "o", "f", " ">> \o label
        ELSE label

\* ------------------------------------------------------------ invocations

NotCalled == [kind |-> "pending", value |-> <<>>]

Return(v) == [kind |-> "return", value |-> v]

Raise(msg) == [kind |-> "raise", value |-> msg]

\* Inputs of _format_type_for_docs: the types and map key types of fields and
\* methods of a .proto file.
ProtoTypes ==
    { <<"s", "t", "r", "i", "n", "g">>, <<"i", "n", "t", "3", "2">>, <<"b", "o", "o", "l">>, <<"g",
          "o", "o", "g", "l", "e", ".", "p", "r", "o", "t", "o", "b", "u", "f", ".", "S", "t", "r",
          "u", "c", "t">>,
      <<"g", "o", "o", "g", "l", "e", ".", "p", "r", "o", "t", "o", "b", "u", "f", ".", "T", "i",
            "m", "e", "s", "t", "a", "m", "p">>, <<"g", "o", "o", "g", "l", "e", ".", "p", "r",
            "o", "t", "o", "b", "u", "f", ".", "D", "u", "r", "a", "t", "i", "o", "n">>,
      <<"g", "o", "o", "g", "l", "e", ".", "p", "r", "o", "t", "o", "b", "u", "f", ".", "A", "n",
            "y">>, <<"F", "o", "o">>, <<"a", "2", "a", ".", "v", "1", ".", "T", "a", "s", "k", "S",
            "t", "a", "t", "e">>, <<"u", "i", "n", "t", "3", "2">>,
      <<"S", "t", "r", "i", "n", "g">>, <<"l", "f", ".", "a", "2", "a", ".", "P", "a", "r", "t">> }

MapKeyTypes == { <<"s", "t", "r", "i", "n", "g">>, <<"i", "n", "t", "3", "2">>, <<"i", "n", "t",
      "6", "4">>, <<"u", "i", "n", "t", "3", "2">>, <<"b", "o", "o", "l">> }

FormatCalls ==
    { [fn |-> "_format_type_for_docs", proto_type |-> t, is_repeated |-> r, map_key |-> k] :
        t \in ProtoTypes, r \in BOOLEAN, k \in {NoneStr} \cup {Some(m) : m \in MapKeyTypes} }

InitFormat ==
    /\ fs = "ok"
    /\ elements = <<>>
    /\ call \in FormatCalls
    /\ result = NotCalled

FormatTypeForDocsCall ==
    /\ result = NotCalled
    /\ call.fn = "_format_type_for_docs"
    /\ result' = Return(FormatTypeForDocs(call.proto_type, call.is_repeated, call.map_key))
    /\ UNCHANGED <<fs, elements, call>>

NextFormat == FormatTypeForDocsCall

SpecFormat == InitFormat /\ [][NextFormat]_vars

\* The call has returned.
Returned(fn) == call.fn = fn /\ result.kind = "return"

\* The label of a formatted type: what follows the wrapping words, from the
\* first code tick or opening bracket on.
LabelPart(out) ==
    LET at == {i \in DOMAIN out : out[i] \in {TICK, "["}}
    IN  IF at = {} THEN <<>>
        ELSE Slice(out, CHOOSE i \in at : \A j \in at : i <= j, Len(out))

\* The wrapping words of a formatted type: what precedes the label.
WrapPart(out) == Slice(out, 1, Len(out) - Len(LabelPart(out)))

SimpleName(proto_type) == Last(Split(proto_type, "."))

InlineCode(name) == <<TICK>> \o name \o <<TICK>>

LinkTo(name) == <<"[">> \o InlineCode(name) \o <<"]", "(", "#">> \o Lower(name) \o <<")">>

\* C8 (as stated): a type renders as unlinked inline code if and only if it is a
\* key of TYPE_MAP; any other type renders as a link labelled with its simple
\* name in inline code and anchored at the lower-case simple name.
C8_OnlyTypeMapUnlinked ==
    Returned("_format_type_for_docs") =>
        LET label == LabelPart(result.value)
            linked == StartsWith(label, <<"[">>)
        IN  /\ ~linked <=> InTypeMap(call.proto_type)
            /\ ~InTypeMap(call.proto_type) => label = LinkTo(SimpleName(call.proto_type))

\* C8 (amended): a type renders as unlinked inline code if and only if it is a
\* key of TYPE_MAP or its name starts with 'google.protobuf' (a TYPE_MAP key
\* shows its mapped name, any other its simple name); every other type renders
\* as a link labelled with its simple name in inline code and anchored at the
\* lower-case simple name.
C8_PrimitiveOrGoogleUnlinked ==
    Returned("_format_type_for_docs") =>
        LET label == LabelPart(result.value)
            t == call.proto_type
            simple == SimpleName(t)
        IN  IF InTypeMap(t)
            THEN \E i \in DOMAIN TYPE_MAP :
                    TYPE_MAP[i][1] = t /\ label = InlineCode(TYPE_MAP[i][2])
            ELSE IF StartsWith(t, <<"g", "o", "o", "g", "l", "e", ".", "p", "r", "o", "t", "o",
                  "b", "u", "f">>)
            THEN label = InlineCode(simple)
            ELSE label = LinkTo(simple)

\* A well-known type outside TYPE_MAP has been rendered without a link.
C8_Witness ==
    /\ Returned("_format_type_for_docs")
    /\ call.proto_type = <<"g", "o", "o", "g", "l", "e", ".", "p", "r", "o", "t", "o", "b", "u",
          "f", ".", "D", "u", "r", "a", "t", "i", "o", "n">>
    /\ result.value = <<TICK, "D", "u", "r", "a", "t", "i", "o", "n", TICK>>

\* The display of a map key: the TYPE_MAP substitution written out.
KeyShown(k) ==
    CASE k = <<"i", "n", "t", "3", "2">> -> <<"i", "n", "t", "e", "g", "e", "r">>
      [] k = <<"i", "n", "t", "6", "4">> -> <<"i", "n", "t", "e", "g", "e", "r">>
      [] k = <<"b", "o", "o", "l">> -> <<"b", "o", "o", "l", "e", "a", "n">>
      [] OTHER -> k

\* C9: exactly one wrapping applies to the label: 'map of <key> to ' when a map
\* key is given (also when is_repeated is true), the key under the TYPE_MAP
\* substitution and never linked; else 'array of ' when is_repeated; else none.
\* No result carries both wrappings.
C9_OneWrapping ==
    Returned("_format_type_for_docs") =>
        LET out == result.value
            wrap == WrapPart(out)
        IN  /\ LabelPart(out) # <<>>
            /\ IF call.map_key # NoneStr
               THEN wrap = <<"m", "a", "p", " ", "o", "f",
                     " ">> \o KeyShown(call.map_key[1]) \o <<" ", "t", "o", " ">>
               ELSE IF call.is_repeated THEN wrap = <<"a", "r", "r", "a", "y", " ", "o", "f", " ">>
               ELSE wrap = <<>>
            /\ ~(Contains(out, <<"m", "a", "p", " ", "o", "f", " ">>) /\ Contains(out, <<"a", "r",
                  "r", "a", "y", " ", "o", "f", " ">>))

\* A repeated flag together with a map key has produced the map wrapping.
C9_Witness ==
    /\ Returned("_format_type_for_docs")
    /\ call.is_repeated
    /\ call.map_key = Some(<<"i", "n", "t", "3", "2">>)
    /\ result.value = <<"m", "a", "p", " ", "o", "f", " ", "i", "n", "t", "e", "g", "e", "r", " ",
          "t", "o", " ", "[", TICK, "F", "o", "o", TICK, "]", "(", "#", "f", "o", "o", ")">>

\* -------------------------------------------------------------------- AST

\* An element of proto_schema_parser.ast. `comments` is the attribute that
\* _attach_comments sets: <<>> while the element has no such attribute, <<b>>
\* once it holds the list b.
Element(kind, name) ==
    [kind |-> kind, parent |-> 0, name |-> name, text |-> <<>>,
     type |-> <<>>, cardinality |-> "None", options |-> <<>>,
     key_type |-> NoneStr, value_type |-> <<>>,
     input_type |-> <<>>, input_stream |-> FALSE,
     output_type |-> <<>>, output_stream |-> FALSE,
     comments |-> <<>>]

Comment(text) == [Element("Comment", <<>>) EXCEPT !.text = text]

Message(name) == Element("Message", name)

Enum(name) == Element("Enum", name)

EnumValue(name) == Element("EnumValue", name)

Service(name) == Element("Service", name)

OneOf(name) == Element("OneOf", name)

Option(name, value) == [name |-> name, value |-> value]

Field(name, type, cardinality, options) ==
    [Element("Field", name) EXCEPT
        !.type = type, !.cardinality = cardinality, !.options = options]

MapField(name, key_type, value_type, options) ==
    [Element("MapField", name) EXCEPT
        !.key_type = Some(key_type), !.value_type = value_type, !.options = options]

Group(name) == Element("Group", name)

Method(name, input_type, input_stream, output_type, output_stream) ==
    [Element("Method", name) EXCEPT
        !.input_type = input_type, !.input_stream = input_stream,
        !.output_type = output_type, !.output_stream = output_stream]

\* hasattr(el, 'elements')
HasElements(el) == el.kind \in {"Message", "Enum", "Service", "OneOf", "Method", "Group"}

\* What the grammar of a .proto file lets the parser put in an element list.
ChildKinds(kind) ==
    CASE kind = "File" -> {"Message", "Enum", "Service", "Comment"}
      [] kind = "Message" ->
            {"Field", "MapField", "OneOf", "Message", "Enum", "Group", "Comment"}
      [] kind = "Group" ->
            {"Field", "MapField", "OneOf", "Message", "Enum", "Group", "Comment"}
      [] kind = "OneOf" -> {"Field", "Comment"}
      [] kind = "Enum" -> {"EnumValue", "Comment"}
      [] kind = "Service" -> {"Method", "Comment"}
      [] kind = "Method" -> {"Comment"}
      [] OTHER -> {}

\* el.elements of node p (p = 0: the file's elements), as node indices in order.
RECURSIVE ChildrenFrom(_, _, _)
ChildrenFrom(els, p, i) ==
    IF i > Len(els) THEN <<>>
    ELSE IF els[i].parent = p THEN <<i>> \o ChildrenFrom(els, p, i + 1)
    ELSE ChildrenFrom(els, p, i + 1)

Children(els, p) == ChildrenFrom(els, p, 1)

RECURSIVE AncestorsOrSelf(_, _)
AncestorsOrSelf(els, n) ==
    IF n = 0 THEN {0} ELSE {n} \cup AncestorsOrSelf(els, els[n].parent)

\* A file under construction: for each element, in declaration order, its
\* index in a pool of elements and the index of its parent.
RECURSIVE OpenFrom(_, _)
OpenFrom(sk, n) == IF n = 0 THEN {0} ELSE {n} \cup OpenFrom(sk, sk[n][2])

\* The element lists still open after the last element declared so far.
OpenLists(sk) == OpenFrom(sk, Len(sk))

\* The element lists still open inside the first element of the file.
OpenInFirst(sk) == OpenLists(sk) \ {0}

\* The files that declare one more element than those of `sks`, in one of the
\* element lists of `open`.
Extend(sks, pool, open(_)) ==
    UNION { { Append(sk, c) :
                c \in { c \in (DOMAIN pool) \X open(sk) :
                          pool[c[1]].kind \in
                              ChildKinds(IF c[2] = 0 THEN "File" ELSE pool[sk[c[2]][1]].kind) } } :
            sk \in sks }

RECURSIVE Grow(_, _, _, _)
\* The files that declare at most n elements more than those of `sks`.
Grow(sks, pool, open(_), n) ==
    IF n = 0 THEN sks ELSE sks \cup Grow(Extend(sks, pool, open), pool, open, n - 1)

\* The AST the parser returns for a file.
Parsed(sk, pool) == [i \in DOMAIN sk |-> [pool[sk[i][1]] EXCEPT !.parent = sk[i][2]]]

\* The ASTs of the files of at most n elements drawn from `pool`.
Asts(pool, n) == {Parsed(sk, pool) : sk \in Grow({<<>>}, pool, OpenLists, n)}

\* The ASTs of the files that hold pool[1] and at most n elements inside it.
AstsInFirst(pool, n) ==
    {Parsed(sk, pool) : sk \in Grow({<< <<1, 0>> >>}, pool, OpenInFirst, n)}

\* ------------------------------------------------------- _attach_comments

RECURSIVE AttachLoop_NoReset(_, _, _, _)
\* Mutant: the buffer is not emptied once its comments are attached.
AttachLoop_NoReset(els, kids, k, buffer) ==
    IF k > Len(kids) THEN els
    ELSE LET el == kids[k]
         IN  IF els[el].kind = "Comment"
             THEN AttachLoop_NoReset(els, kids, k + 1, Append(buffer, els[el].text))
             ELSE LET attached == [els EXCEPT ![el].comments = <<buffer>>]
                      nested ==
                          IF HasElements(els[el])
                          THEN AttachLoop_NoReset(attached, Children(els, el), 1, <<>>)
                          ELSE attached
                  IN  AttachLoop_NoReset(nested, kids, k + 1, buffer)

RECURSIVE AttachLoop(_, _, _, _)
\* The loop of _attach_comments over the element list `kids` from position k
\* on, with the comment buffer collected so far.
AttachLoop(els, kids, k, buffer) ==
    IF k > Len(kids) THEN els
    ELSE LET el == kids[k]
         IN  IF els[el].kind = "Comment"
             THEN AttachLoop(els, kids, k + 1, Append(buffer, els[el].text))
             ELSE LET attached == [els EXCEPT ![el].comments = <<buffer>>]
                      nested ==
                          IF HasElements(els[el])
                          THEN AttachLoop(attached, Children(els, el), 1, <<>>)
                          ELSE attached
                  IN  AttachLoop(nested, kids, k + 1, <<>>)

\* _attach_comments(el.elements) for node p (p = 0: ast.file_elements)
AttachComments(els, p) == AttachLoop(els, Children(els, p), 1, <<>>)

Digits == <<"1", "2", "3", "4", "5", "6", "7", "8", "9">>

\* An AST whose comments each carry a text of their own.
DistinctComments(els) ==
    [i \in DOMAIN els |->
        IF els[i].kind = "Comment"
        THEN [els[i] EXCEPT !.text = <<"/", "/", " ", "c">> \o <<Digits[i]>>]
        ELSE els[i]]

MaxAttachNodes == 5

AttachPool ==
    << Comment(<<"/", "/">>), Message(<<"M">>), OneOf(<<"o">>), Enum(<<"E">>),
       Field(<<"f">>, <<"s", "t", "r", "i", "n", "g">>, "None", <<>>) >>

InitAttach ==
    /\ fs = "ok"
    /\ elements \in {DistinctComments(t) : t \in Asts(AttachPool, MaxAttachNodes)}
    /\ call = [fn |-> "_attach_comments"]
    /\ result = NotCalled

AttachCommentsCall ==
    /\ result = NotCalled
    /\ call.fn = "_attach_comments"
    /\ elements' = AttachComments(elements, 0)
    /\ result' = Return(<<>>)
    /\ UNCHANGED <<fs, call>>

NextAttach == AttachCommentsCall

SpecAttach == InitAttach /\ [][NextAttach]_vars

\* The comments el.comments holds (none while the attribute is unset).
Attached(el) == IF el.comments = <<>> THEN <<>> ELSE el.comments[1]

\* The position of node n in its own element list.
PositionOf(els, n) ==
    LET sibs == Children(els, els[n].parent)
    IN  CHOOSE k \in DOMAIN sibs : sibs[k] = n

\* The texts of the comments that immediately precede node n in its own
\* element list, in order.
PrecedingRun(els, n) ==
    LET sibs == Children(els, els[n].parent)
        k == PositionOf(els, n)
        real == {j \in 1..(k - 1) : els[sibs[j]].kind # "Comment"}
        start == IF real = {} THEN 0 ELSE CHOOSE j \in real : \A i \in real : i <= j
    IN  [i \in 1..(k - 1 - start) |-> els[sibs[start + i]].text]

\* Comment c is followed, somewhere in its own element list, by a real element.
HasFollower(els, c) ==
    \E n \in DOMAIN els :
        n > c /\ els[n].parent = els[c].parent /\ els[n].kind # "Comment"

\* How many times text t occurs in the comments attached to the elements.
RECURSIVE Occurrences(_, _, _)
Occurrences(els, t, n) ==
    IF n = 0 THEN 0
    ELSE Cardinality({i \in DOMAIN Attached(els[n]) : Attached(els[n])[i] = t})
         + Occurrences(els, t, n - 1)

\* C6: after _attach_comments every non-comment element at every nesting level
\* holds exactly the run of comments immediately preceding it in its own
\* element list, in order; a comment attaches only to an element of its own
\* list, to at most one element, and to none when no element follows it there.
C6_PrecedingRunAttached ==
    Returned("_attach_comments") =>
        /\ \A n \in DOMAIN elements :
              elements[n].kind # "Comment" =>
                  elements[n].comments = <<PrecedingRun(elements, n)>>
        /\ \A c \in DOMAIN elements :
              elements[c].kind = "Comment" =>
                  /\ elements[c].comments = <<>>
                  /\ Occurrences(elements, elements[c].text, Len(elements))
                        = IF HasFollower(elements, c) THEN 1 ELSE 0
                  /\ \A n \in DOMAIN elements :
                        (\E i \in DOMAIN Attached(elements[n]) :
                            Attached(elements[n])[i] = elements[c].text)
                        => elements[n].parent = elements[c].parent /\ c < n

\* A nested element has received two comments while a comment of the outer
\* list, with nothing after it, and one trailing the nested list were dropped.
C6_Witness ==
    /\ Returned("_attach_comments")
    /\ \E m, f \in DOMAIN elements :
          /\ elements[m].kind = "Message" /\ elements[m].parent = 0
          /\ elements[f].parent = m /\ elements[f].kind # "Comment"
          /\ Len(Attached(elements[f])) = 2
          /\ elements[Len(elements)].kind = "Comment"
          /\ elements[Len(elements)].parent = m

\* ------------------------------------------------------ _extract_comments

\* The body of the loop of _extract_comments: one raw comment cleaned.
CleanComment(comment) ==
    LET text == RemoveSuffix(RemovePrefix(RemovePrefix(Strip(comment), <<"/", "/">>), <<"/",
          "*">>), <<"*", "/">>)
        raw == SplitLines(text)
        lines == [i \in DOMAIN raw |-> Strip(RemovePrefix(Strip(raw[i]), <<"*">>))]
    IN  Join(SelectSeq(lines, LAMBDA l : l # <<>>), <<" ">>)

ReservedMarkers == { <<"p", "r", "o", "t", "o", "l", "i", "n", "t", ":">>, <<"-", "-", "8", "<",
      "-", "-">>, <<"N", "e", "x", "t", " ", "I", "D", ":">> }

\* combined.startswith(('protolint:', '--8<--', 'Next ID:'))
StartsWithMarker(combined) == \E m \in ReservedMarkers : StartsWith(combined, m)

\* Mutant: the first reserved comment ends the description.
ExtractComments_StopAtMarker(element) ==
    LET cleaned == [i \in DOMAIN Attached(element) |-> CleanComment(Attached(element)[i])]
        stop == {i \in DOMAIN cleaned : StartsWithMarker(cleaned[i])}
        upto == IF stop = {} THEN Len(cleaned)
                ELSE (CHOOSE i \in stop : \A j \in stop : i <= j) - 1
    IN  Join(SelectSeq(Slice(cleaned, 1, upto), LAMBDA c : c # <<>>), <<" ">>)

ExtractComments(element) ==
    LET raw_comments == Attached(element)
        cleaned == [i \in DOMAIN raw_comments |-> CleanComment(raw_comments[i])]
        cleaned_parts ==
            SelectSeq(cleaned, LAMBDA combined : combined # <<>> /\ ~StartsWithMarker(combined))
    IN  Join(cleaned_parts, <<" ">>)

MaxComments == 3

\* Raw comments as the parser hands them over: line and block comments, with
\* and without a reserved marker, at and away from the start.
CommentPool ==
    { <<"/", "/", " ", "D", "e", "s", "c", "r", "i", "b", "e", "s", " ", "X", ".">>,
      <<"/", "*", " ", "N", "e", "x", "t", " ", "I", "D", ":", " ", "5", " ", "*", "/">>,
      <<"/", "/", " ", "p", "r", "o", "t", "o", "l", "i", "n", "t", ":", "d", "i", "s", "a", "b",
            "l", "e", " ", "M", "A", "X">>,
      <<"/", "/", " ", "-", "-", "8", "<", "-", "-", " ", "[", "s", "t", "a", "r", "t", ":", "T",
            "a", "s", "k", "]">>,
      <<"/", "/">>,
      <<"/", "*", "*", "\n", " ", "*", " ", "T", "h", "e", " ", "t", "a", "s", "k", ".", "\n", " ",
            "*", " ", "N", "e", "x", "t", " ", "I", "D", ":", " ", "3", "\n", " ", "*", "/">>,
      <<" ", " ", "/", "/", " ", "S", "e", "e", " ", "p", "r", "o", "t", "o", "l", "i", "n", "t",
            ":", " ", "x", " ">>,
      <<"/", "*", "\n", " ", "*", " ", "-", "-", "8", "<", "-", "-", " ", "x", "\n", " ", "*",
            "/">> }

RECURSIVE SeqsOfLen(_, _)
SeqsOfLen(S, n) ==
    IF n = 0 THEN {<<>>}
    ELSE {Append(q, x) : q \in SeqsOfLen(S, n - 1), x \in S}

SeqsUpTo(S, n) == UNION {SeqsOfLen(S, k) : k \in 0..n}

ExtractCalls ==
    { [fn |-> "_extract_comments", element |-> Message(<<"M">>)] }
    \cup { [fn |-> "_extract_comments",
            element |-> [Message(<<"M">>) EXCEPT !.comments = <<cs>>]] :
              cs \in SeqsUpTo(CommentPool, MaxComments) }

InitExtract ==
    /\ fs = "ok"
    /\ elements = <<>>
    /\ call \in ExtractCalls
    /\ result = NotCalled

ExtractCommentsCall ==
    /\ result = NotCalled
    /\ call.fn = "_extract_comments"
    /\ result' = Return(ExtractComments(call.element))
    /\ UNCHANGED <<fs, elements, call>>

NextExtract == ExtractCommentsCall

SpecExtract == InitExtract /\ [][NextExtract]_vars

\* A comment of the description: its cleaned text is neither empty nor reserved.
Documents(comment) ==
    LET c == CleanComment(comment)
    IN  c # <<>> /\ \A m \in ReservedMarkers : ~StartsWith(c, m)

RECURSIVE Description(_)
\* The cleaned texts of the comments that document, single-spaced, in order.
Description(cs) ==
    IF cs = <<>> THEN <<>>
    ELSE LET rest == Description(Tail(cs))
         IN  IF ~Documents(Head(cs)) THEN rest
             ELSE IF rest = <<>> THEN CleanComment(Head(cs))
             ELSE CleanComment(Head(cs)) \o <<" ">> \o rest

\* C10: _extract_comments returns the cleaned texts of the attached comments,
\* in order, joined by one space, without those that are empty or begin with
\* 'protolint:', '--8<--' or 'Next ID:'; a reserved comment does not suppress
\* the others, and no attached comments give the empty string.
C10_DescriptionOfComments ==
    Returned("_extract_comments") =>
        LET cs == Attached(call.element)
        IN  /\ result.value = Description(cs)
            /\ cs = <<>> => result.value = <<>>
            /\ cs = <<<<"/", "*", " ", "N", "e", "x", "t", " ", "I", "D", ":", " ", "5", " ", "*",
                  "/">>, <<"/", "/", " ", "D", "e", "s", "c", "r", "i", "b", "e", "s", " ", "X",
                  ".">>>>
                  => result.value = <<"D", "e", "s", "c", "r", "i", "b", "e", "s", " ", "X", ".">>
            /\ cs = <<<<"/", "/", " ", "D", "e", "s", "c", "r", "i", "b", "e", "s", " ", "X",
                  ".">>, <<"/", "/", " ", "p", "r", "o", "t", "o", "l", "i", "n", "t", ":", "d",
                  "i", "s", "a", "b", "l", "e", " ", "M", "A", "X">>,
                      <<"/", "*", "*", "\n", " ", "*", " ", "T", "h", "e", " ", "t", "a", "s", "k",
                            ".", "\n", " ", "*", " ", "N", "e", "x", "t", " ", "I", "D", ":", " ",
                            "3", "\n", " ", "*", "/">>>>
                  => result.value = <<"D", "e", "s", "c", "r", "i", "b", "e", "s", " ", "X", ".",
                        " ", "T", "h", "e", " ", "t", "a", "s", "k", ".", " ", "N", "e", "x", "t",
                        " ", "I", "D", ":", " ", "3">>

\* A reserved comment between two documenting ones has been left out.
C10_Witness ==
    /\ Returned("_extract_comments")
    /\ Attached(call.element) =
          <<<<"/", "/", " ", "D", "e", "s", "c", "r", "i", "b", "e", "s", " ", "X", ".">>, <<"/",
                "*", " ", "N", "e", "x", "t", " ", "I", "D", ":", " ", "5", " ", "*", "/">>, <<" ",
                " ", "/", "/", " ", "S", "e", "e", " ", "p", "r", "o", "t", "o", "l", "i", "n",
                "t", ":", " ", "x", " ">>>>
    /\ result.value = <<"D", "e", "s", "c", "r", "i", "b", "e", "s", " ", "X", ".", " ", "S", "e",
          "e", " ", "p", "r", "o", "t", "o", "l", "i", "n", "t", ":", " ", "x">>

\* ------------------------------------------------------------- _find_type

RECURSIVE FindLoop_ReturnNested(_, _, _, _, _)
\* Mutant: the outcome of the search inside a message is returned as it is,
\* also when nothing was found there.
FindLoop_ReturnNested(els, kids, k, name, target_cls) ==
    IF k > Len(kids) THEN 0
    ELSE LET el == kids[k]
         IN  IF els[el].name = name /\ els[el].kind = target_cls THEN el
             ELSE IF els[el].kind = "Message"
             THEN FindLoop_ReturnNested(els, Children(els, el), 1, name, target_cls)
             ELSE FindLoop_ReturnNested(els, kids, k + 1, name, target_cls)

RECURSIVE FindLoop(_, _, _, _, _)
\* The loop of _find_type over the element list `kids` from position k on;
\* 0 is None.
FindLoop(els, kids, k, name, target_cls) ==
    IF k > Len(kids) THEN 0
    ELSE LET el == kids[k]
         IN  IF els[el].name = name /\ els[el].kind = target_cls THEN el
             ELSE LET found ==
                          IF els[el].kind = "Message"
                          THEN FindLoop(els, Children(els, el), 1, name, target_cls)
                          ELSE 0
                  IN  IF found # 0 THEN found
                      ELSE FindLoop(els, kids, k + 1, name, target_cls)

RECURSIVE FindLoop_AnyClass(_, _, _, _)
\* The search of _find_type without its isinstance test.
FindLoop_AnyClass(els, kids, k, name) ==
    IF k > Len(kids) THEN 0
    ELSE LET el == kids[k]
         IN  IF els[el].name = name THEN el
             ELSE LET found ==
                          IF els[el].kind = "Message"
                          THEN FindLoop_AnyClass(els, Children(els, el), 1, name)
                          ELSE 0
                  IN  IF found # 0 THEN found
                      ELSE FindLoop_AnyClass(els, kids, k + 1, name)

\* Mutant: an element of the requested name is returned whatever its class.
FindType_AnyClass(els, p, name, target_cls) == FindLoop_AnyClass(els, Children(els, p), 1, name)

\* _find_type(el.elements, name, target_cls) for node p (p = 0: the file)
FindType(els, p, name, target_cls) == FindLoop(els, Children(els, p), 1, name, target_cls)

MaxFindNodes == 4

TypeNames == { <<"A">>, <<"B">> }

TargetClasses == {"Message", "Enum", "Service"}

FindPool == << Message(<<"A">>), Message(<<"B">>), Enum(<<"A">>), Service(<<"A">>),
      Group(<<"B">>) >>

InitFind ==
    /\ fs = "ok"
    /\ elements \in Asts(FindPool, MaxFindNodes)
    /\ call \in { [fn |-> "_find_type", name |-> n, target_cls |-> c] :
                    n \in TypeNames, c \in TargetClasses }
    /\ result = NotCalled

FindTypeCall ==
    /\ result = NotCalled
    /\ call.fn = "_find_type"
    /\ result' = Return(FindType(elements, 0, call.name, call.target_cls))
    /\ UNCHANGED <<fs, elements, call>>

NextFind == FindTypeCall

SpecFind == InitFind /\ [][NextFind]_vars

\* The enclosing elements of node n.
Enclosing(els, n) == AncestorsOrSelf(els, els[n].parent) \ {0}

\* The nodes a traversal that enters only messages can come to.
Traversed(els) ==
    {n \in DOMAIN els : \A a \in Enclosing(els, n) : els[a].kind = "Message"}

Matches(els, name, target_cls) ==
    {n \in Traversed(els) : els[n].name = name /\ els[n].kind = target_cls}

\* C7: _find_type returns the first element, in the pre-order traversal that
\* enters only Message elements, whose name and variant are the requested
\* ones, and none if and only if that traversal holds no such element.
C7_FirstInPreOrder ==
    Returned("_find_type") =>
        LET m == Matches(elements, call.name, call.target_cls)
        IN  IF m = {} THEN result.value = 0
            ELSE /\ result.value \in m
                 /\ \A n \in m : result.value <= n

\* An enum nested in the first message has been returned although a later
\* element of the file's own list matches too.
C7_Witness ==
    /\ Returned("_find_type")
    /\ result.value # 0
    /\ elements[result.value].parent # 0
    /\ \E n \in DOMAIN elements :
          /\ n > result.value /\ elements[n].parent = 0
          /\ elements[n].name = call.name /\ elements[n].kind = call.target_cls

\* --------------------------------------- _snake_to_camel_case, _process_field

RECURSIVE Concat(_)
\* ''.join(parts)
Concat(parts) == IF parts = <<>> THEN <<>> ELSE Head(parts) \o Concat(Tail(parts))

SnakeToCamelCase(snake_str) ==
    LET components == Split(snake_str, "_")
    IN  components[1] \o Concat([i \in 1..(Len(components) - 1) |-> Title(components[i + 1])])

\* next((o.value.strip('"') for o in options if o.name == 'json_name'), None)
JsonNameOf(options) ==
    LET named == SelectSeq(options, LAMBDA o : o.name = <<"j", "s", "o", "n", "_", "n", "a", "m",
          "e">>)
    IN  IF named = <<>> THEN NoneStr ELSE Some(StripChars(named[1].value, {DQUOTE}))

\* any('REQUIRED' in str(opt.value) for opt in options if 'field_behavior' in opt.name)
HasRequiredBehavior(options) ==
    \E i \in DOMAIN options :
        /\ Contains(options[i].name, <<"f", "i", "e", "l", "d", "_", "b", "e", "h", "a", "v", "i",
              "o", "r">>)
        /\ Contains(options[i].value, <<"R", "E", "Q", "U", "I", "R", "E", "D">>)

\* Mutant: a oneof member that is marked required is reported as required.
RequiredCell_RequiredFirst(field, is_oneof) ==
    IF field.cardinality = "REQUIRED" \/ HasRequiredBehavior(field.options) THEN <<"Y", "e", "s">>
    ELSE IF is_oneof THEN <<"O", "p", "t", "i", "o", "n", "a", "l", " ", "(", "O", "n", "e", "O",
          "f", ")">>
    ELSE <<"N", "o">>

\* req_val of _process_field
RequiredCell(field, is_oneof) ==
    IF is_oneof THEN <<"O", "p", "t", "i", "o", "n", "a", "l", " ", "(", "O", "n", "e", "O", "f",
          ")">>
    ELSE IF field.cardinality = "REQUIRED" \/ HasRequiredBehavior(field.options) THEN <<"Y", "e",
          "s">>
    ELSE <<"N", "o">>

\* The row [name, type, required, description] of a Field or MapField.
ProcessField(field, is_oneof) ==
    LET json_name == JsonNameOf(field.options)
        display_name ==
            IF Truthy(json_name) THEN json_name[1] ELSE SnakeToCamelCase(field.name)
        is_map == field.kind = "MapField"
        is_repeated == field.cardinality = "REPEATED"
        type_to_format == IF is_map THEN field.value_type ELSE field.type
        type_str == FormatTypeForDocs(type_to_format, is_repeated, field.key_type)
    IN  << <<TICK>> \o display_name \o <<TICK>>,
           type_str,
           RequiredCell(field, is_oneof),
           ExtractComments(field) >>

MaxOptions == 2

Cardinalities == {"None", "OPTIONAL", "REQUIRED", "REPEATED"}

\* Field options as the parser hands them over: name and value as written.
OptionPool ==
    { Option(<<"(", "g", "o", "o", "g", "l", "e", ".", "a", "p", "i", ".", "f", "i", "e", "l", "d",
          "_", "b", "e", "h", "a", "v", "i", "o", "r", ")">>, <<"R", "E", "Q", "U", "I", "R", "E",
          "D">>),
      Option(<<"(", "g", "o", "o", "g", "l", "e", ".", "a", "p", "i", ".", "f", "i", "e", "l", "d",
            "_", "b", "e", "h", "a", "v", "i", "o", "r", ")">>, <<"O", "P", "T", "I", "O", "N",
            "A", "L">>),
      Option(<<"(", "x", ".", "f", "i", "e", "l", "d", "_", "b", "e", "h", "a", "v", "i", "o", "r",
            "_", "l", "i", "s", "t", ")">>, <<"[", "N", "O", "T", "_", "R", "E", "Q", "U", "I",
            "R", "E", "D", "_", "Y", "E", "T", "]">>),
      Option(<<"(", "x", ".", "n", "o", "t", "e", ")">>, <<DQUOTE, "R", "E", "Q", "U", "I", "R",
            "E", "D", DQUOTE>>),
      Option(<<"j", "s", "o", "n", "_", "n", "a", "m", "e">>, <<DQUOTE, "f", "o", "o", "B", "a",
            "r", DQUOTE>>),
      Option(<<"d", "e", "p", "r", "e", "c", "a", "t", "e", "d">>, <<"t", "r", "u", "e">>) }

FieldCalls ==
    { [fn |-> "_process_field", field |-> f, is_oneof |-> o] :
        f \in { Field(<<"f", "o", "o", "_", "b", "a", "r">>, <<"F", "o", "o">>, c, opts) :
                  c \in Cardinalities, opts \in SeqsUpTo(OptionPool, MaxOptions) }
              \cup { MapField(<<"m", "e", "t", "a", "_", "d", "a", "t", "a">>, <<"s", "t", "r",
                    "i", "n", "g">>, <<"i", "n", "t", "3", "2">>, opts) :
                       opts \in SeqsUpTo(OptionPool, MaxOptions) },
        o \in BOOLEAN }

InitField ==
    /\ fs = "ok"
    /\ elements = <<>>
    /\ call \in FieldCalls
    /\ result = NotCalled

ProcessFieldCall ==
    /\ result = NotCalled
    /\ call.fn = "_process_field"
    /\ result' = Return(ProcessField(call.field, call.is_oneof))
    /\ UNCHANGED <<fs, elements, call>>

NextField == ProcessFieldCall

SpecField == InitField /\ [][NextField]_vars

\* C5: the Required cell is 'Optional (OneOf)' for every oneof member whatever
\* its cardinality and options; otherwise 'Yes' if and only if the cardinality
\* is REQUIRED or an option whose name contains 'field_behavior' has a value
\* containing 'REQUIRED'; otherwise 'No'. It is always one of the three.
C5_RequiredCell ==
    Returned("_process_field") =>
        LET cell == result.value[3]
            f == call.field
            behaviour ==
                {i \in DOMAIN f.options :
                    /\ Contains(f.options[i].name, <<"f", "i", "e", "l", "d", "_", "b", "e", "h",
                          "a", "v", "i", "o", "r">>)
                    /\ Contains(f.options[i].value, <<"R", "E", "Q", "U", "I", "R", "E", "D">>)}
        IN  /\ cell \in { <<"Y", "e", "s">>, <<"N", "o">>, <<"O", "p", "t", "i", "o", "n", "a",
              "l", " ", "(", "O", "n", "e", "O", "f", ")">> }
            /\ call.is_oneof => cell = <<"O", "p", "t", "i", "o", "n", "a", "l", " ", "(", "O",
                  "n", "e", "O", "f", ")">>
            /\ ~call.is_oneof =>
                  (cell = <<"Y", "e", "s">> <=> (f.cardinality = "REQUIRED" \/ behaviour # {}))
            /\ ~call.is_oneof => cell \in { <<"Y", "e", "s">>, <<"N", "o">> }

\* A oneof member whose field_behavior option says REQUIRED has been reported
\* as 'Optional (OneOf)'.
C5_Witness ==
    /\ Returned("_process_field")
    /\ call.is_oneof
    /\ call.field.cardinality = "REQUIRED"
    /\ call.field.options = <<Option(<<"(", "g", "o", "o", "g", "l", "e", ".", "a", "p", "i", ".",
          "f", "i", "e", "l", "d", "_", "b", "e", "h", "a", "v", "i", "o", "r", ")">>, <<"R", "E",
          "Q", "U", "I", "R", "E", "D">>)>>
    /\ result.value[3] = <<"O", "p", "t", "i", "o", "n", "a", "l", " ", "(", "O", "n", "e", "O",
          "f", ")">>

\* ----------------------------------------------------------- _parse_proto

DefaultProtoFile == <<"s", "p", "e", "c", "i", "f", "i", "c", "a", "t", "i", "o", "n", "/", "a",
      "2", "a", ".", "p", "r", "o", "t", "o">>

\* str(e) of what Parser().parse raises on a file it cannot parse.
ParseErrorMessage == <<"n", "o", " ", "v", "i", "a", "b", "l", "e", " ", "a", "l", "t", "e", "r",
      "n", "a", "t", "i", "v", "e", " ", "a", "t", " ", "i", "n", "p", "u", "t">>

\* _parse_proto: the elements with their comments attached, or what it raises.
ParseProto(file_state, file_elements, file_path) ==
    IF file_state = "missing"
    THEN [exc |-> "FileNotFoundError", msg |-> <<"P", "r", "o", "t", "o", " ", "n", "o", "t", " ",
          "f", "o", "u", "n", "d", ":", " ">> \o file_path,
          els |-> <<>>]
    ELSE IF file_state = "unparsable"
    THEN [exc |-> "Exception", msg |-> ParseErrorMessage, els |-> <<>>]
    ELSE [exc |-> "", msg |-> <<>>, els |-> AttachComments(file_elements, 0)]

\* ------------------------------------------------------------------ output

\* A macro's return value: the text before the table that tabulate renders,
\* that table (<<>>: none, <<[headers, rows]>>: one) and the text after it.
Output(before, table, after) == [before |-> before, table |-> table, after |-> after]

TextOnly(text) == Output(text, <<>>, <<>>)

\* tabulate(rows, headers, tablefmt='github')
Tabulate(rows, headers) == [headers |-> headers, rows |-> rows]

\* An item of the `output` list: a string or the rendered table.
Line(text) == [is_table |-> FALSE, text |-> text, table |-> <<>>]

TableItem(table) == [is_table |-> TRUE, text |-> <<>>, table |-> <<table>>]

\* '\n'.join(output) for an output list that holds the table
JoinOutput(output) ==
    LET t == CHOOSE i \in DOMAIN output : output[i].is_table
    IN  Output(Concat([i \in 1..(t - 1) |-> output[i].text \o <<"\n">>]),
               output[t].table,
               Concat([i \in 1..(Len(output) - t) |-> <<"\n">> \o output[t + i].text]))

\* ---------------------------------------------------------- proto_to_table

\* oneof_groups.setdefault(name, []).append(field): the dict as its items in
\* insertion order
GroupAppend(oneof_groups, name, field) ==
    IF \E i \in DOMAIN oneof_groups : oneof_groups[i].name = name
    THEN [i \in DOMAIN oneof_groups |->
            IF oneof_groups[i].name = name
            THEN [oneof_groups[i] EXCEPT !.fields = Append(@, field)]
            ELSE oneof_groups[i]]
    ELSE Append(oneof_groups, [name |-> name, fields |-> <<field>>])

RECURSIVE OneOfLoop(_, _, _, _, _)
\* The inner loop of proto_to_table over the elements of oneof node `el`.
OneOfLoop(els, el, members, k, acc) ==
    IF k > Len(members) THEN acc
    ELSE LET oneof_el == els[members[k]]
         IN  IF oneof_el.kind = "Field"
             THEN LET row == ProcessField(oneof_el, TRUE)
                  IN  OneOfLoop(els, el, members, k + 1,
                          [rows |-> Append(acc.rows, row),
                           oneof_groups |->
                               GroupAppend(acc.oneof_groups, els[el].name,
                                           StripChars(row[1], {TICK}))])
             ELSE OneOfLoop(els, el, members, k + 1, acc)

RECURSIVE RowsLoop_OneOfsLast(_, _, _, _)
\* Mutant: the rows of oneof members are put after those of the plain fields.
RowsLoop_OneOfsLast(els, kids, k, acc) ==
    LET plain == SelectSeq(kids, LAMBDA n : els[n].kind \in {"Field", "MapField"})
        oneofs == SelectSeq(kids, LAMBDA n : els[n].kind = "OneOf")
        order == plain \o oneofs
    IN  IF k > Len(order) THEN acc
        ELSE LET el == order[k]
             IN  IF els[el].kind \in {"Field", "MapField"}
                 THEN RowsLoop_OneOfsLast(els, kids, k + 1,
                          [acc EXCEPT !.rows = Append(@, ProcessField(els[el], FALSE))])
                 ELSE RowsLoop_OneOfsLast(els, kids, k + 1,
                          OneOfLoop(els, el, Children(els, el), 1, acc))

RECURSIVE RowsLoop(_, _, _, _)
\* The loop of proto_to_table over target_message.elements.
RowsLoop(els, kids, k, acc) ==
    IF k > Len(kids) THEN acc
    ELSE LET el == kids[k]
         IN  IF els[el].kind \in {"Field", "MapField"}
             THEN RowsLoop(els, kids, k + 1,
                      [acc EXCEPT !.rows = Append(@, ProcessField(els[el], FALSE))])
             ELSE IF els[el].kind = "OneOf"
             THEN RowsLoop(els, kids, k + 1, OneOfLoop(els, el, Children(els, el), 1, acc))
             ELSE RowsLoop(els, kids, k + 1, acc)

\* The note of a oneof group of more than one field.
OneOfNote(message_name, fields) ==
    <<"*", "*", "N", "o", "t", "e", ":", "*", "*", " ", "A", " ", TICK>> \o message_name \o <<TICK,
          " ", "M", "U", "S", "T", " ", "c", "o", "n", "t", "a", "i", "n", " ", "e", "x", "a", "c",
          "t", "l", "y", " ", "o", "n", "e", " ", "o", "f", " ", "t", "h", "e", " ", "f", "o", "l",
          "l", "o", "w", "i", "n", "g", ":", " ">>
    \o Join([i \in DOMAIN fields |-> <<TICK>> \o fields[i] \o <<TICK>>], <<",", " ">>)

\* Mutant: a group of a single field gets a note too.
OneOfNotes_AnyGroup(message_name, oneof_groups) ==
    IF oneof_groups = <<>> THEN <<>>
    ELSE <<Line(<<>>)>>
         \o [i \in DOMAIN oneof_groups |->
                Line(OneOfNote(message_name, oneof_groups[i].fields))]

\* The "Add OneOf Notes" block: what it appends to `output`.
OneOfNotes(message_name, oneof_groups) ==
    IF oneof_groups = <<>> THEN <<>>
    ELSE LET noted == SelectSeq(oneof_groups, LAMBDA g : Len(g.fields) > 1)
         IN  <<Line(<<>>)>>
             \o [i \in DOMAIN noted |-> Line(OneOfNote(message_name, noted[i].fields))]

MessageHeaders == <<<<"F", "i", "e", "l", "d">>, <<"T", "y", "p", "e">>, <<"R", "e", "q", "u", "i",
      "r", "e", "d">>, <<"D", "e", "s", "c", "r", "i", "p", "t", "i", "o", "n">>>>

NotFound(kind, name) == <<"*", "*", "E", "r", "r", "o", "r", ":", "*", "*", " ">> \o kind \o <<" ",
      TICK>> \o name \o <<TICK, " ", "n", "o", "t", " ", "f", "o", "u", "n", "d", ".">>

\* proto_to_table once the file is parsed: from the lookup of the message on.
RenderMessage(els, message_name) ==
    LET target_message == FindType(els, 0, message_name, "Message")
        scan == RowsLoop(els, Children(els, target_message), 1,
                         [rows |-> <<>>, oneof_groups |-> <<>>])
        msg_desc == ExtractComments(els[target_message])
        output ==
            (IF msg_desc # <<>> THEN <<Line(msg_desc), Line(<<>>)>> ELSE <<>>)
            \o <<TableItem(Tabulate(scan.rows, MessageHeaders))>>
            \o OneOfNotes(message_name, scan.oneof_groups)
    IN  IF target_message = 0
        THEN Return(TextOnly(NotFound(<<"M", "e", "s", "s", "a", "g", "e">>, message_name)))
        ELSE IF scan.rows = <<>> THEN Return(TextOnly(<<"N", "o", "n", "e">>))
        ELSE Return(JoinOutput(output))

\* Mutant: any exception of _parse_proto is turned into an error string.
ProtoToTable_CatchAll(file_state, file_elements, message_name, proto_file) ==
    LET parsed == ParseProto(file_state, file_elements, proto_file)
    IN  IF parsed.exc # "" THEN Return(TextOnly(<<"*", "*", "E", "r", "r", "o", "r", ":", "*", "*",
          " ">> \o parsed.msg))
        ELSE RenderMessage(parsed.els, message_name)

ProtoToTable(file_state, file_elements, message_name, proto_file) ==
    LET parsed == ParseProto(file_state, file_elements, proto_file)
    IN  IF parsed.exc = "FileNotFoundError"
        THEN Return(TextOnly(<<"*", "*", "E", "r", "r", "o", "r", ":", "*", "*",
              " ">> \o parsed.msg))
        ELSE IF parsed.exc # "" THEN Raise(parsed.msg)
        ELSE RenderMessage(parsed.els, message_name)

\* ----------------------------------------------------- proto_enum_to_table

EnumHeaders == <<<<"V", "a", "l", "u", "e">>, <<"D", "e", "s", "c", "r", "i", "p", "t", "i", "o",
      "n">>>>

ProtoEnumToTable(file_state, file_elements, enum_name, proto_file) ==
    LET parsed == ParseProto(file_state, file_elements, proto_file)
        els == parsed.els
        el == FindType(els, 0, enum_name, "Enum")
        values == SelectSeq(Children(els, el), LAMBDA e : els[e].kind = "EnumValue")
        rows == [i \in DOMAIN values |->
                    << <<TICK>> \o els[values[i]].name \o <<TICK>>,
                       ExtractComments(els[values[i]]) >>]
    IN  IF parsed.exc # "" THEN Return(TextOnly(<<"*", "*", "E", "r", "r", "o", "r", ":", "*", "*",
          " ">> \o parsed.msg))
        ELSE IF el = 0 THEN Return(TextOnly(NotFound(<<"E", "n", "u", "m">>, enum_name)))
        ELSE Return(Output(ExtractComments(els[el]) \o <<"\n", "\n">>,
                           <<Tabulate(rows, EnumHeaders)>>, <<>>))

\* -------------------------------------------------- proto_service_to_table

ServiceHeaders == <<<<"M", "e", "t", "h", "o", "d">>, <<"R", "e", "q", "u", "e", "s", "t">>, <<"R",
      "e", "s", "p", "o", "n", "s", "e">>, <<"D", "e", "s", "c", "r", "i", "p", "t", "i", "o",
      "n">>>>

\* req_str and res_str of proto_service_to_table
StreamType(type, stream) ==
    IF stream THEN <<"s", "t", "r", "e", "a", "m", " ">> \o FormatTypeForDocs(type, FALSE, NoneStr)
    ELSE FormatTypeForDocs(type, FALSE, NoneStr)

ProtoServiceToTable(file_state, file_elements, service_name, proto_file) ==
    LET parsed == ParseProto(file_state, file_elements, proto_file)
        els == parsed.els
        service == FindType(els, 0, service_name, "Service")
        methods == SelectSeq(Children(els, service), LAMBDA e : els[e].kind = "Method")
        rows == [i \in DOMAIN methods |->
                    LET m == els[methods[i]]
                    IN  << <<TICK>> \o m.name \o <<TICK>>,
                           StreamType(m.input_type, m.input_stream),
                           StreamType(m.output_type, m.output_stream),
                           ExtractComments(m) >>]
    IN  IF parsed.exc # "" THEN Return(TextOnly(<<"*", "*", "E", "r", "r", "o", "r", ":", "*", "*",
          " ">> \o parsed.msg))
        ELSE IF service = 0 THEN Return(TextOnly(NotFound(<<"S", "e", "r", "v", "i", "c", "e">>,
              service_name)))
        ELSE IF rows = <<>> THEN Return(TextOnly(<<"N", "o", "n", "e">>))
        ELSE Return(Output(<<>>, <<Tabulate(rows, ServiceHeaders)>>, <<>>))

\* ------------------------------------------------------- macro invocations

ProtoToTableCall ==
    /\ result = NotCalled
    /\ call.fn = "proto_to_table"
    /\ result' = ProtoToTable(fs, elements, call.name, call.proto_file)
    /\ UNCHANGED <<fs, elements, call>>

ProtoEnumToTableCall ==
    /\ result = NotCalled
    /\ call.fn = "proto_enum_to_table"
    /\ result' = ProtoEnumToTable(fs, elements, call.name, call.proto_file)
    /\ UNCHANGED <<fs, elements, call>>

ProtoServiceToTableCall ==
    /\ result = NotCalled
    /\ call.fn = "proto_service_to_table"
    /\ result' = ProtoServiceToTable(fs, elements, call.name, call.proto_file)
    /\ UNCHANGED <<fs, elements, call>>

\* ------------------------------------------------- rendering one message

MaxTableNodes == 3

\* The elements of a message: plain, repeated and map fields, oneofs, a nested
\* message, an enum and a comment.
TablePool ==
    << Message(<<"M", "s", "g">>),
       Message(<<"I", "n", "n", "e", "r">>),
       Field(<<"a">>, <<"s", "t", "r", "i", "n", "g">>, "REQUIRED", <<>>),
       Field(<<"t", "a", "s", "k", "_", "i", "d">>, <<"F", "o", "o">>, "REPEATED", <<>>),
       MapField(<<"m", "e", "t", "a", "_", "d", "a", "t", "a">>, <<"s", "t", "r", "i", "n", "g">>,
             <<"i", "n", "t", "3", "2">>, <<>>),
       OneOf(<<"c", "h", "o", "i", "c", "e">>), OneOf(<<"a", "l", "t">>), Enum(<<"E">>),
       Comment(<<"/", "/", " ", "D", "e", "s", "c", "r", "i", "b", "e", "s", " ", "X", ".">>) >>

InitTable ==
    /\ fs = "ok"
    /\ elements \in AstsInFirst(TablePool, MaxTableNodes)
    /\ call \in { [fn |-> "proto_to_table", name |-> n, proto_file |-> DefaultProtoFile] :
                    n \in { <<"M", "s", "g">>, <<"I", "n", "n", "e", "r">> } }
    /\ result = NotCalled

NextTable == ProtoToTableCall

SpecTable == InitTable /\ [][NextTable]_vars

\* The message proto_to_table renders: the first of that name (0: none).
Located ==
    LET m == Matches(elements, call.name, "Message")
    IN  IF m = {} THEN 0 ELSE CHOOSE n \in m : \A k \in m : n <= k

\* Node n is a Field of a oneof that is a direct child of message m.
IsMemberOf(els, n, m) ==
    /\ els[n].kind = "Field"
    /\ els[n].parent # 0
    /\ els[els[n].parent].kind = "OneOf"
    /\ els[els[n].parent].parent = m

\* The nodes of the AST, in declaration order.
Nodes(els) == [i \in 1..Len(els) |-> i]

\* The elements of message m that the table shows, in declaration order: its
\* own fields and map fields, and the fields of its oneofs.
Shown(els, m) ==
    SelectSeq(Nodes(els),
        LAMBDA n : \/ els[n].parent = m /\ els[n].kind \in {"Field", "MapField"}
                   \/ IsMemberOf(els, n, m))

\* C1: for a located message the table has one row per direct Field or MapField
\* child and one per Field member of each direct OneOf child, and none for any
\* other child; the rows are in declaration order, a oneof's rows at the place
\* of the oneof, and every oneof member's Required cell is 'Optional (OneOf)'.
\* (A message that gives no row gives the text 'None' and no table.)
C1_RowsInDeclarationOrder ==
    (Returned("proto_to_table") /\ Located # 0) =>
        LET shown == Shown(elements, Located)
            out == result.value
        IN  IF shown = <<>> THEN out = TextOnly(<<"N", "o", "n", "e">>)
            ELSE /\ out.table # <<>>
                 /\ Len(out.table[1].rows) = Len(shown)
                 /\ \A k \in DOMAIN shown :
                       LET el == elements[shown[k]]
                           member == IsMemberOf(elements, shown[k], Located)
                           row == out.table[1].rows[k]
                       IN  /\ row[1] = ProcessField(el, member)[1]
                           /\ row[2] = ProcessField(el, member)[2]
                           /\ row[3] = IF member THEN <<"O", "p", "t", "i", "o", "n", "a", "l",
                                 " ", "(", "O", "n", "e", "O", "f", ")">>
                                       ELSE ProcessField(el, FALSE)[3]
                           /\ row[4] = Description(PrecedingRun(elements, shown[k]))

\* A message made of a oneof with one field and then a required field has
\* been rendered as two rows, the oneof member first.
C1_Witness ==
    /\ Returned("proto_to_table")
    /\ Located = 1
    /\ Len(elements) = 4
    /\ elements[2].kind = "OneOf" /\ elements[3].parent = 2
    /\ elements[4].kind = "Field" /\ elements[4].parent = 1
    /\ result.value.table # <<>>
    /\ Len(result.value.table[1].rows) = 2
    /\ result.value.table[1].rows[1][3] = <<"O", "p", "t", "i", "o", "n", "a", "l", " ", "(", "O",
          "n", "e", "O", "f", ")">>
    /\ result.value.table[1].rows[2][3] = <<"Y", "e", "s">>

\* The names of the oneofs of message m that have a field, in the order in
\* which their first field is declared.
RECURSIVE GroupNames(_, _, _)
GroupNames(els, shown, m) ==
    IF shown = <<>> THEN <<>>
    ELSE LET rest == GroupNames(els, Tail(shown), m)
             n == Head(shown)
             g == els[els[n].parent].name
         IN  IF ~IsMemberOf(els, n, m) THEN rest
             ELSE <<g>> \o SelectSeq(rest, LAMBDA x : x # g)

\* The display names of the fields of the oneofs of m named g, in declaration
\* order.
GroupMembers(els, m, g) ==
    LET members == SelectSeq(Nodes(els),
                       LAMBDA n : IsMemberOf(els, n, m) /\ els[els[n].parent].name = g)
    IN  [i \in DOMAIN members |-> StripChars(ProcessField(els[members[i]], TRUE)[1], {TICK})]

\* The note on the oneof group g of message m.
NoteOn(els, m, g) ==
    <<"*", "*", "N", "o", "t", "e", ":", "*", "*", " ", "A", " ", TICK>> \o els[m].name \o <<TICK,
          " ", "M", "U", "S", "T", " ", "c", "o", "n", "t", "a", "i", "n", " ", "e", "x", "a", "c",
          "t", "l", "y", " ", "o", "n", "e", " ", "o", "f", " ", "t", "h", "e", " ", "f", "o", "l",
          "l", "o", "w", "i", "n", "g", ":", " ">>
    \o Join([i \in DOMAIN GroupMembers(els, m, g) |->
                InlineCode(GroupMembers(els, m, g)[i])], <<",", " ">>)

\* The lines of a text.
LinesOf(text) == Split(text, "\n")

IsLineOf(line, text) == \E i \in DOMAIN LinesOf(text) : LinesOf(text)[i] = line

\* C2 (as stated): the note on a oneof group is emitted if and only if the
\* group has more than one member field, and lists the members' display names
\* in declaration order; a group of exactly one member adds nothing to the
\* output after the table.
C2_NothingAddedForSingleMember ==
    (Returned("proto_to_table") /\ Located # 0 /\ result.value.table # <<>>) =>
        LET groups == GroupNames(elements, Shown(elements, Located), Located)
            after == result.value.after
        IN  /\ \A i \in DOMAIN groups :
                  Len(GroupMembers(elements, Located, groups[i])) > 1
                  <=> IsLineOf(NoteOn(elements, Located, groups[i]), after)
            /\ (\A i \in DOMAIN groups :
                  Len(GroupMembers(elements, Located, groups[i])) = 1)
               => after = <<>>

\* C2 (amended): the note on a oneof group is emitted if and only if the group
\* has more than one member field, and lists the members' display names in
\* declaration order; for a group of exactly one member no note is emitted, and
\* what follows the table is an empty line, put there whenever some oneof of
\* the message has a field, and then the notes, one per line.
C2_NoteIffSeveralMembers ==
    (Returned("proto_to_table") /\ Located # 0 /\ result.value.table # <<>>) =>
        LET groups == GroupNames(elements, Shown(elements, Located), Located)
            noted == SelectSeq(groups,
                         LAMBDA g : Len(GroupMembers(elements, Located, g)) > 1)
            after == result.value.after
        IN  /\ \A i \in DOMAIN groups :
                  Len(GroupMembers(elements, Located, groups[i])) > 1
                  <=> IsLineOf(NoteOn(elements, Located, groups[i]), after)
            /\ after = IF groups = <<>> THEN <<>>
                       ELSE <<"\n">> \o Concat([i \in DOMAIN noted |->
                                <<"\n">> \o NoteOn(elements, Located, noted[i])])

\* A oneof of two fields has been rendered with its note, the members named
\* in declaration order.
C2_Witness ==
    /\ Returned("proto_to_table")
    /\ Located = 1
    /\ Len(elements) = 4
    /\ elements[2] = [OneOf(<<"c", "h", "o", "i", "c", "e">>) EXCEPT !.parent = 1]
    /\ elements[3].name = <<"t", "a", "s", "k", "_", "i", "d">> /\ elements[3].parent = 2
    /\ elements[4].name = <<"a">> /\ elements[4].parent = 2
    /\ result.value.after =
          <<"\n", "\n", "*", "*", "N", "o", "t", "e", ":", "*", "*", " ", "A", " ", TICK, "M", "s",
                "g", TICK, " ", "M", "U", "S", "T", " ", "c", "o", "n", "t", "a", "i", "n", " ",
                "e", "x", "a", "c", "t", "l", "y", " ", "o", "n", "e", " ", "o", "f", " ", "t",
                "h", "e", " ", "f", "o", "l", "l", "o", "w", "i", "n", "g", ":", " ", TICK, "t",
                "a", "s", "k", "I", "d", TICK, ",", " ", TICK, "a", TICK>>

\* -------------------------------------------------------- the three macros

MaxFileNodes == 3

FilePool ==
    << Message(<<"A">>), Enum(<<"A">>), Enum(<<"B">>), Service(<<"A">>),
       Field(<<"a">>, <<"s", "t", "r", "i", "n", "g">>, "None", <<>>), EnumValue(<<"V">>),
       Method(<<"S", "e", "n", "d">>, <<"A">>, FALSE, <<"g", "o", "o", "g", "l", "e", ".", "p",
             "r", "o", "t", "o", "b", "u", "f", ".", "E", "m", "p", "t", "y">>, TRUE) >>

MacroCalls ==
    { [fn |-> f, name |-> n, proto_file |-> DefaultProtoFile] :
        f \in {"proto_to_table", "proto_enum_to_table", "proto_service_to_table"},
        n \in TypeNames }

\* The file is there and parses, or is missing, or is there and does not parse.
InitMacros ==
    /\ \/ fs = "ok" /\ elements \in Asts(FilePool, MaxFileNodes)
       \/ fs \in {"missing", "unparsable"} /\ elements = <<>>
    /\ call \in MacroCalls
    /\ result = NotCalled

NextMacros == ProtoToTableCall \/ ProtoEnumToTableCall \/ ProtoServiceToTableCall

SpecMacros == InitMacros /\ [][NextMacros]_vars

\* The macro has ended, by a return or by an exception.
Ended == result # NotCalled

\* The class a macro looks for, and its name in the error text.
KindOf(fn) ==
    CASE fn = "proto_to_table" -> "Message"
      [] fn = "proto_enum_to_table" -> "Enum"
      [] fn = "proto_service_to_table" -> "Service"

KindWord(fn) ==
    CASE fn = "proto_to_table" -> <<"M", "e", "s", "s", "a", "g", "e">>
      [] fn = "proto_enum_to_table" -> <<"E", "n", "u", "m">>
      [] fn = "proto_service_to_table" -> <<"S", "e", "r", "v", "i", "c", "e">>

\* C3: when the file parses and holds no element of the requested kind and
\* name, each of the three macros returns exactly
\* '**Error:** <Kind> `<name>` not found.', raises nothing and gives no table.
C3_NotFoundText ==
    (/\ Ended
     /\ fs = "ok"
     /\ \A n \in DOMAIN elements :
           ~(elements[n].kind = KindOf(call.fn) /\ elements[n].name = call.name))
    => /\ result.kind = "return"
       /\ result.value.table = <<>>
       /\ result.value.after = <<>>
       /\ result.value.before =
             <<"*", "*", "E", "r", "r", "o", "r", ":", "*", "*",
                   " ">> \o KindWord(call.fn) \o <<" ", TICK>> \o call.name \o <<TICK, " ", "n",
                   "o", "t", " ", "f", "o", "u", "n", "d", ".">>

\* A message was asked for by a name that only an enum of the file bears.
C3_Witness ==
    /\ Ended
    /\ fs = "ok"
    /\ call.fn = "proto_to_table"
    /\ call.name = <<"B">>
    /\ \E n \in DOMAIN elements : elements[n].kind = "Enum" /\ elements[n].name = <<"B">>
    /\ result = Return(TextOnly(<<"*", "*", "E", "r", "r", "o", "r", ":", "*", "*", " ", "M", "e",
          "s", "s", "a", "g", "e", " ", TICK, "B", TICK, " ", "n", "o", "t", " ", "f", "o", "u",
          "n", "d", ".">>))

\* C4: a missing file makes each macro return '**Error:** Proto not found:
\* <path>'; any other failure makes proto_enum_to_table and
\* proto_service_to_table return '**Error:** <message>', and leaves
\* proto_to_table by an exception.
C4_FailureOutcomes ==
    Ended =>
        /\ fs = "missing" =>
              result = Return(TextOnly(<<"*", "*", "E", "r", "r", "o", "r", ":", "*", "*", " ",
                    "P", "r", "o", "t", "o", " ", "n", "o", "t", " ", "f", "o", "u", "n", "d", ":",
                    " ">> \o call.proto_file))
        /\ fs = "unparsable" =>
              IF call.fn = "proto_to_table"
              THEN result.kind = "raise"
              ELSE result = Return(TextOnly(<<"*", "*", "E", "r", "r", "o", "r", ":", "*", "*",
                    " ">> \o ParseErrorMessage))

\* proto_to_table has ended by the exception of the parser.
C4_Witness ==
    /\ fs = "unparsable"
    /\ call.fn = "proto_to_table"
    /\ result = Raise(ParseErrorMessage)

\* ------------------------------------------------------ every invocation

Init ==
    \/ InitFormat
    \/ InitAttach
    \/ InitExtract
    \/ InitFind
    \/ InitField
    \/ InitTable
    \/ InitMacros

Next ==
    \/ FormatTypeForDocsCall
    \/ AttachCommentsCall
    \/ ExtractCommentsCall
    \/ FindTypeCall
    \/ ProcessFieldCall
    \/ ProtoToTableCall
    \/ ProtoEnumToTableCall
    \/ ProtoServiceToTableCall

Spec == Init /\ [][Next]_vars

=============================================================================
